---- MODULE Spec2Model ----
(***************************************************************************)
(* Click-tracking links: the link store, the click recorder                *)
(* (GET /track/:linkId), the deferred enrichment merger                    *)
(* (POST /api/track-update/:linkId) and the link CRUD routes, in the three *)
(* variants of the server: "interstitial" (src/unnamed/part_000:1-598),    *)
(* "direct" (src/unnamed/part_000:600-885) and "basic" (src/server.js).    *)
(*                                                                         *)
(* Every await of a handler is a scheduling point: a handler is a sequence *)
(* of steps, one per store operation, and steps of different requests      *)
(* interleave freely.  A store operation (findOne, findOneAndUpdate,       *)
(* findOneAndDelete, insert, updateOne) is atomic on its document.         *)
(***************************************************************************)
EXTENDS Integers, Sequences, FiniteSets, TLC

VARIABLES scope, variant, store, now, inflight, response, pages, nRequests

vars == <<scope, variant, store, now, inflight, response, pages, nRequests>>

(***************************************************************************)
(* Bounds of the model.                                                    *)
(***************************************************************************)
\* create, track and track-update requests started in one behaviour
MaxRequests == 4
\* the clock runs from 0 to MaxTime
MaxTime == 1
\* requests being handled at the same time
MaxInFlight == 2

(***************************************************************************)
(* JavaScript values: strings, numbers, null and undefined, tagged so that *)
(* values of different types can be compared.  Text that the code searches *)
(* (user-agent, IP) is a sequence of one-character strings.                *)
(***************************************************************************)
Undefined == [t |-> "undefined"]
Null == [t |-> "null"]
Str(s) == [t |-> "string", v |-> s]
Num(n) == [t |-> "number", v |-> n]

\* JavaScript's truthiness, as used by `a || b`
Truthy(x) ==
  /\ x # Undefined
  /\ x # Null
  /\ x # Str("")
  /\ x # Num(0)

\* a || b
Or(a, b) == IF Truthy(a) THEN a ELSE b

\* String.prototype.includes on character sequences
Includes(s, p) ==
  \E i \in 1..(Len(s) - Len(p) + 1) : SubSeq(s, i, i + Len(p) - 1) = p

\* the lower-case letter of one character
LowerChar(c) ==
  CASE c = "A" -> "a" [] c = "B" -> "b" [] c = "C" -> "c" [] c = "D" -> "d"
    [] c = "E" -> "e" [] c = "F" -> "f" [] c = "G" -> "g" [] c = "H" -> "h"
    [] c = "I" -> "i" [] c = "J" -> "j" [] c = "K" -> "k" [] c = "L" -> "l"
    [] c = "M" -> "m" [] c = "N" -> "n" [] c = "O" -> "o" [] c = "P" -> "p"
    [] c = "Q" -> "q" [] c = "R" -> "r" [] c = "S" -> "s" [] c = "T" -> "t"
    [] c = "U" -> "u" [] c = "V" -> "v" [] c = "W" -> "w" [] c = "X" -> "x"
    [] c = "Y" -> "y" [] c = "Z" -> "z" [] OTHER -> c

\* String.prototype.toLowerCase
ToLowerCase(s) == [i \in 1..Len(s) |-> LowerChar(s[i])]

\* String.prototype.replace with a string pattern: the first occurrence only
Replace(s, p, r) ==
  IF Includes(s, p)
  THEN LET i == CHOOSE k \in 1..(Len(s) - Len(p) + 1) :
                  /\ SubSeq(s, k, k + Len(p) - 1) = p
                  /\ \A j \in 1..(k - 1) : SubSeq(s, j, j + Len(p) - 1) # p
       IN SubSeq(s, 1, i - 1) \o r \o SubSeq(s, i + Len(p), Len(s))
  ELSE s

(***************************************************************************)
(* parseUserAgent                                                          *)
(***************************************************************************)
wChrome == <<"c", "h", "r", "o", "m", "e">>
wEdg == <<"e", "d", "g">>
wSafari == <<"s", "a", "f", "a", "r", "i">>
wFirefox == <<"f", "i", "r", "e", "f", "o", "x">>
wOpera == <<"o", "p", "e", "r", "a">>
wOpr == <<"o", "p", "r">>
wWindows == <<"w", "i", "n", "d", "o", "w", "s">>
wMac == <<"m", "a", "c">>
wLinux == <<"l", "i", "n", "u", "x">>
wAndroid == <<"a", "n", "d", "r", "o", "i", "d">>
wIphone == <<"i", "p", "h", "o", "n", "e">>
wIpad == <<"i", "p", "a", "d">>
wMobile == <<"m", "o", "b", "i", "l", "e">>
wTablet == <<"t", "a", "b", "l", "e", "t">>

\* a classifier whose Chrome rule does not look for "edg"
detectBrowserChromeFirst(ua) ==
  IF Includes(ua, wChrome) THEN "Chrome"
  ELSE IF Includes(ua, wSafari) THEN "Safari"
  ELSE IF Includes(ua, wFirefox) THEN "Firefox"
  ELSE IF Includes(ua, wEdg) THEN "Edge"
  ELSE IF Includes(ua, wOpera) \/ Includes(ua, wOpr) THEN "Opera"
  ELSE "Unknown"

detectBrowser(ua) ==
  IF Includes(ua, wChrome) /\ ~Includes(ua, wEdg) THEN "Chrome"
  ELSE IF Includes(ua, wSafari) /\ ~Includes(ua, wChrome) THEN "Safari"
  ELSE IF Includes(ua, wFirefox) THEN "Firefox"
  ELSE IF Includes(ua, wEdg) THEN "Edge"
  ELSE IF Includes(ua, wOpera) \/ Includes(ua, wOpr) THEN "Opera"
  ELSE "Unknown"

detectOs(ua) ==
  IF Includes(ua, wWindows) THEN "Windows"
  ELSE IF Includes(ua, wMac) THEN "macOS"
  ELSE IF Includes(ua, wLinux) THEN "Linux"
  ELSE IF Includes(ua, wAndroid) THEN "Android"
  ELSE IF Includes(ua, wIphone) \/ Includes(ua, wIpad) THEN "iOS"
  ELSE "Unknown"

detectDevice(ua) ==
  IF Includes(ua, wMobile) THEN "Mobile"
  ELSE IF Includes(ua, wTablet) \/ Includes(ua, wIpad) THEN "Tablet"
  ELSE "Desktop"

parseUserAgent(userAgent) ==
  LET ua == ToLowerCase(userAgent)
  IN [browser |-> detectBrowser(ua), os |-> detectOs(ua), device |-> detectDevice(ua)]

(***************************************************************************)
(* getClientIp and getGeolocation                                          *)
(***************************************************************************)
cComma == <<",">>
ipv6Prefix == <<":", ":", "f", "f", "f", "f", ":">>
ipLoopback4 == <<"1", "2", "7", ".", "0", ".", "0", ".", "1">>
ipLoopback6 == <<":", ":", "1">>
sUnknown == <<"U", "n", "k", "n", "o", "w", "n">>
sDirect == <<"D", "i", "r", "e", "c", "t">>

\* s.split(',')[0]: the text before the first comma
FirstOfSplit(s) ==
  IF Includes(s, cComma)
  THEN LET i == CHOOSE k \in 1..Len(s) :
                  s[k] = "," /\ \A j \in 1..(k - 1) : s[j] # ","
       IN SubSeq(s, 1, i - 1)
  ELSE s

\* a || b on header text: a missing header and an empty one are both falsy (<<>>)
OrText(a, b) == IF a # <<>> THEN a ELSE b

getClientIp(req) ==
  OrText(FirstOfSplit(req.xForwardedFor),
    OrText(req.xRealIp, OrText(req.remoteAddress, sUnknown)))

unknownGeo ==
  [country |-> Str("Unknown"), city |-> Str("Unknown"), region |-> Str("Unknown"),
   latitude |-> Null, longitude |-> Null]

cleanIpOf(ip) == Replace(ip, ipv6Prefix, <<>>)

\* the addresses for which no external lookup is issued
skipsLookup(ip) == cleanIpOf(ip) \in {ipLoopback4, ipLoopback6, sUnknown}

\* what the external lookup can answer when it is issued
lookupSuccess ==
  [kind |-> "json",
   data |-> [status |-> Str("success"), country |-> Str("Norway"), city |-> Str("Oslo"),
             regionName |-> Str("Oslo County"), lat |-> Num(59), lon |-> Num(10)]]
lookupFail ==
  [kind |-> "json",
   data |-> [status |-> Str("fail"), country |-> Undefined, city |-> Undefined,
             regionName |-> Undefined, lat |-> Undefined, lon |-> Undefined]]
\* status success with fields missing, empty or zero
lookupSparse ==
  [kind |-> "json",
   data |-> [status |-> Str("success"), country |-> Undefined, city |-> Str(""),
             regionName |-> Null, lat |-> Num(0), lon |-> Num(10)]]
lookupNetworkError == [kind |-> "network_error"]
lookupMalformed == [kind |-> "malformed_body"]
noLookup == [kind |-> "not_issued"]

\* a resolver without the fallback return after the catch: nothing is returned
getGeolocationNoFallback(ip, lookup) ==
  IF skipsLookup(ip) THEN unknownGeo
  ELSE IF lookup.kind = "json" /\ lookup.data.status = Str("success")
  THEN [country |-> Or(lookup.data.country, Str("Unknown")),
        city |-> Or(lookup.data.city, Str("Unknown")),
        region |-> Or(lookup.data.regionName, Str("Unknown")),
        latitude |-> Or(lookup.data.lat, Null),
        longitude |-> Or(lookup.data.lon, Null)]
  ELSE [country |-> Undefined, city |-> Undefined, region |-> Undefined,
        latitude |-> Undefined, longitude |-> Undefined]

getGeolocation(ip, lookup) ==
  IF skipsLookup(ip) THEN unknownGeo
  ELSE IF lookup.kind = "json" /\ lookup.data.status = Str("success")
  THEN [country |-> Or(lookup.data.country, Str("Unknown")),
        city |-> Or(lookup.data.city, Str("Unknown")),
        region |-> Or(lookup.data.regionName, Str("Unknown")),
        latitude |-> Or(lookup.data.lat, Null),
        longitude |-> Or(lookup.data.lon, Null)]
  ELSE unknownGeo

(***************************************************************************)
(* Inputs of the requests.  A behaviour draws them from the sets of its    *)
(* scope: "system" has two links and every variant, with one kind of click *)
(* and the payloads the interstitial page posts; "requests" has one link   *)
(* and every kind of click and lookup answer; "payloads" has one link and  *)
(* every kind of track-update payload.                                     *)
(***************************************************************************)
uaChromeWindows ==
  <<"W", "i", "n", "d", "o", "w", "s", " ", "C", "h", "r", "o", "m", "e", " ",
    "S", "a", "f", "a", "r", "i">>
uaIpad == <<"i", "P", "a", "d", " ", "S", "a", "f", "a", "r", "i">>
ipPublic == <<"8", ".", "8", ".", "4", ".", "4">>
ipOther == <<"1", ".", "1", ".", "1", ".", "1">>
refSearch == <<"h", "t", "t", "p", ":", "/", "/", "s", ".", "e", "x">>

\* a request from the local machine, without headers
reqLocal ==
  [xForwardedFor |-> <<>>, xRealIp |-> <<>>, remoteAddress |-> ipv6Prefix \o ipLoopback4,
   userAgent |-> <<>>, referer |-> <<>>, referrer |-> <<>>, remotePort |-> Num(50000)]
\* a request through a proxy, from a browser
reqProxied ==
  [xForwardedFor |-> ipPublic \o cComma \o ipLoopback4, xRealIp |-> <<>>,
   remoteAddress |-> ipLoopback4, userAgent |-> uaChromeWindows,
   referer |-> refSearch, referrer |-> <<>>, remotePort |-> Undefined]
\* a request through a proxy that sets x-real-ip, from a tablet
reqRealIp ==
  [xForwardedFor |-> <<>>, xRealIp |-> ipOther, remoteAddress |-> ipLoopback6,
   userAgent |-> uaIpad, referer |-> <<>>, referrer |-> refSearch,
   remotePort |-> Num(0)]

\* user-agent texts: the product tokens browsers send, in their usual case
tChrome == <<"C", "h", "r", "o", "m", "e">>
tEdg == <<"E", "d", "g">>
tSafari == <<"S", "a", "f", "a", "r", "i">>
tFirefox == <<"F", "i", "r", "e", "f", "o", "x">>
tOpera == <<"O", "p", "e", "r", "a">>
tOpr == <<"O", "P", "R">>
tMobile == <<"M", "o", "b", "i", "l", "e">>
tTablet == <<"T", "a", "b", "l", "e", "t">>
tIpad == <<"i", "P", "a", "d">>
tAndroid == <<"A", "n", "d", "r", "o", "i", "d">>
tWindows == <<"W", "i", "n", "d", "o", "w", "s">>

BrowserTokens == {"Chrome", "Edg", "Safari", "Firefox", "Opera", "OPR"}
DeviceTokens == {"Mobile", "Tablet", "iPad"}

\* token w followed by a space when it is one of the chosen tokens
piece(chosen, name, w) == IF name \in chosen THEN w \o <<" ">> ELSE <<>>

\* the user-agent text made of the chosen tokens
uaWith(chosen) ==
  piece(chosen, "Windows", tWindows) \o piece(chosen, "Android", tAndroid)
    \o piece(chosen, "iPad", tIpad) \o piece(chosen, "Chrome", tChrome)
    \o piece(chosen, "Mobile", tMobile) \o piece(chosen, "Tablet", tTablet)
    \o piece(chosen, "Safari", tSafari) \o piece(chosen, "Firefox", tFirefox)
    \o piece(chosen, "Edg", tEdg) \o piece(chosen, "Opera", tOpera)
    \o piece(chosen, "OPR", tOpr)

\* every combination of the browser tokens, and every combination of the
\* device tokens alone, in an Android browser and in a Windows browser
UserAgents ==
  {uaWith(b) : b \in SUBSET BrowserTokens}
    \cup {uaWith(d \cup c) :
            d \in SUBSET DeviceTokens,
            c \in {{}, {"Android", "Chrome", "Safari"}, {"Windows", "Chrome", "Edg"}}}

\* x-forwarded-for texts: loopback and "Unknown" with and without the IPv6-mapping
\* prefix, public addresses, and addresses with "::ffff:" inside
ipEmbedded == <<"1">> \o ipv6Prefix \o <<"2", "7", ".", "0", ".", "0", ".", "1">>
ClientAddresses ==
  {ipLoopback4, ipv6Prefix \o ipLoopback4, ipLoopback6, ipv6Prefix \o ipLoopback6,
   sUnknown, ipv6Prefix \o sUnknown, ipPublic, ipv6Prefix \o ipPublic,
   ipv6Prefix \o ipv6Prefix \o ipLoopback4, ipEmbedded, <<>>}

\* requests that differ in the user-agent only, or in the address only (none
\* at all when the header is empty: the connection has no address)
InputRequests ==
  {[reqProxied EXCEPT !.userAgent = ua] : ua \in UserAgents}
    \cup {[reqProxied EXCEPT !.xForwardedFor = ip, !.remoteAddress = <<>>] :
            ip \in ClientAddresses}

EnrichFields ==
  {"cameraPermission", "locationPermission", "userLatitude", "userLongitude",
   "screenResolution", "language", "timezone", "connectionType"}

emptyPayload == [f \in EnrichFields |-> Undefined]

\* what collectTrackingData posts when camera and location are granted
payloadGranted ==
  [cameraPermission |-> Str("granted"), locationPermission |-> Str("granted"),
   userLatitude |-> Num(60), userLongitude |-> Num(11),
   screenResolution |-> Str("1920x1080"), language |-> Str("en-US"),
   timezone |-> Str("Europe/Oslo"), connectionType |-> Str("4g")]
\* what it posts when both are denied: no coordinates
payloadDenied ==
  [cameraPermission |-> Str("denied"), locationPermission |-> Str("denied"),
   userLatitude |-> Undefined, userLongitude |-> Undefined,
   screenResolution |-> Str("390x844"), language |-> Str("nb-NO"),
   timezone |-> Str("Europe/Oslo"), connectionType |-> Str("Unknown")]

ClientPayloads == {payloadGranted, payloadDenied}

\* payloads of other clients: one field null, the rest absent
nullPayload(f) == [emptyPayload EXCEPT ![f] = Null]

Scopes == {"system", "requests", "payloads", "inputs", "page"}

\* identifiers the generator of POST /api/links can produce
LinkIdsIn(sc) == IF sc = "system" THEN {"link_1", "link_2"} ELSE {"link_1"}

TrackRequestsIn(sc) ==
  IF sc = "requests" THEN {reqLocal, reqProxied, reqRealIp}
  ELSE IF sc = "inputs" THEN InputRequests
  ELSE {reqProxied}

\* the answers of the external lookup
LookupsIn(sc) ==
  IF sc = "requests"
  THEN {lookupSuccess, lookupFail, lookupNetworkError, lookupMalformed}
  ELSE IF sc = "inputs"
  THEN {lookupSuccess, lookupSparse, lookupFail, lookupNetworkError, lookupMalformed}
  ELSE {lookupSuccess}

PayloadsIn(sc) ==
  IF sc = "payloads"
  THEN ClientPayloads \cup {emptyPayload} \cup {nullPayload(f) : f \in EnrichFields}
  ELSE IF sc = "requests" THEN {payloadGranted}
  ELSE ClientPayloads

VariantsIn(sc) ==
  IF sc = "system" THEN {"interstitial", "direct", "basic"}
  ELSE IF sc = "requests" THEN {"interstitial", "direct"}
  ELSE IF sc = "inputs" THEN {"direct"}
  ELSE {"interstitial"}

\* how many handlers can be waiting at once: the input functions work on one
\* request, so the "inputs" scope handles one request at a time
InFlightIn(sc) == IF sc = "inputs" THEN 1 ELSE MaxInFlight

Names == {Undefined, Str("Promo")}
Urls == {Undefined, Str("https://a.example")}

(***************************************************************************)
(* The link store: a collection of Link documents                          *)
(***************************************************************************)
Date(n) == [t |-> "date", v |-> n]

\* Link.findOne({ linkId }): the document, or null
findOne(docs, linkId) ==
  IF \E d \in docs : d.linkId = linkId
  THEN CHOOSE d \in docs : d.linkId = linkId
  ELSE Null

\* new Link({ linkId, name, destinationUrl }): the schema's defaults
newLink(oid, linkId, name, destinationUrl, time) ==
  [_id |-> oid, linkId |-> linkId, name |-> name, destinationUrl |-> destinationUrl,
   clicks |-> 0, createdAt |-> Date(time), lastClicked |-> Undefined,
   clickRecords |-> <<>>]

\* the schema's validation: required strings
passesValidation(name, destinationUrl) ==
  /\ name \notin {Undefined, Null, Str("")}
  /\ destinationUrl \notin {Undefined, Null, Str("")}

\* an insert into a collection without the unique index
insertLinkNoIndex(docs, doc) == docs \cup {doc}

\* insert of a new document under the unique index on linkId
insertLink(docs, doc) ==
  IF findOne(docs, doc.linkId) = Null THEN docs \cup {doc} ELSE docs

\* a delete whose filter matches any document
findOneAndDeleteAny(docs, linkId) ==
  IF docs = {} THEN docs ELSE docs \ {CHOOSE d \in docs : TRUE}

\* Link.findOneAndDelete({ linkId })
findOneAndDelete(docs, linkId) == {d \in docs : d.linkId # linkId}

\* an update that pushes the click record at the front of the history
applyClickAtFront(doc, clickRecord, lastClicked) ==
  [doc EXCEPT !.clicks = @ + 1,
              !.lastClicked = lastClicked,
              !.clickRecords = <<clickRecord>> \o @]

\* an update without the $inc
applyClickNoInc(doc, clickRecord, lastClicked) ==
  [doc EXCEPT !.lastClicked = lastClicked,
              !.clickRecords = Append(@, clickRecord)]

\* { $inc: { clicks: 1 }, $set: { lastClicked }, $push: { clickRecords } }
applyClick(doc, clickRecord, lastClicked) ==
  [doc EXCEPT !.clicks = @ + 1,
              !.lastClicked = lastClicked,
              !.clickRecords = Append(@, clickRecord)]

\* { $inc: { clicks: 1 } } alone
applyCountOnly(doc, lastClicked) == [doc EXCEPT !.clicks = @ + 1]

\* { $inc: { clicks: 1 }, $set: { lastClicked } } of the basic variant
applyCount(doc, lastClicked) ==
  [doc EXCEPT !.clicks = @ + 1, !.lastClicked = lastClicked]

\* an update the handler does not wait for: not applied when the response goes out
findOneAndUpdateUnawaited(docs, linkId, clickRecord, lastClicked, withRecord) == docs

\* findOneAndUpdate with { upsert: true }
findOneAndUpdateUpsert(docs, linkId, clickRecord, lastClicked, withRecord) ==
  LET found == findOne(docs, linkId)
      doc == IF found = Null
             THEN [_id |-> 0, linkId |-> linkId, name |-> Undefined,
                   destinationUrl |-> Undefined, clicks |-> 0, createdAt |-> Undefined,
                   lastClicked |-> Undefined, clickRecords |-> <<>>]
             ELSE found
  IN (docs \ {doc}) \cup
     {IF withRecord THEN applyClick(doc, clickRecord, lastClicked)
      ELSE applyCount(doc, lastClicked)}

\* Link.findOneAndUpdate({ linkId }, update): no upsert
findOneAndUpdate(docs, linkId, clickRecord, lastClicked, withRecord) ==
  LET doc == findOne(docs, linkId)
  IN IF doc = Null THEN docs
     ELSE (docs \ {doc}) \cup
          {IF withRecord THEN applyClick(doc, clickRecord, lastClicked)
           ELSE applyCount(doc, lastClicked)}

\* a click record without the enrichment defaults in any variant
buildClickRecordBare(rid, variantName, time, ipAddress, geoData, userAgent, parsed, referrer, portNumber) ==
  LET enriched == FALSE
  IN [_id |-> rid,
      timestamp |-> Date(time),
      ipAddress |-> ipAddress,
      country |-> geoData.country,
      city |-> geoData.city,
      region |-> geoData.region,
      latitude |-> geoData.latitude,
      longitude |-> geoData.longitude,
      userAgent |-> userAgent,
      browser |-> parsed.browser,
      os |-> parsed.os,
      device |-> parsed.device,
      referrer |-> referrer,
      portNumber |-> IF enriched THEN portNumber ELSE Undefined,
      cameraPermission |-> IF enriched THEN Str("not_requested") ELSE Undefined,
      locationPermission |-> IF enriched THEN Str("not_requested") ELSE Undefined,
      userLatitude |-> Undefined,
      userLongitude |-> Undefined,
      screenResolution |-> IF enriched THEN Str("Unknown") ELSE Undefined,
      language |-> IF enriched THEN Str("Unknown") ELSE Undefined,
      timezone |-> IF enriched THEN Str("Unknown") ELSE Undefined,
      connectionType |-> IF enriched THEN Str("Unknown") ELSE Undefined]

\* the click record of the track handler
buildClickRecord(rid, variantName, time, ipAddress, geoData, userAgent, parsed, referrer, portNumber) ==
  LET enriched == variantName = "interstitial"
  IN [_id |-> rid,
      timestamp |-> Date(time),
      ipAddress |-> ipAddress,
      country |-> geoData.country,
      city |-> geoData.city,
      region |-> geoData.region,
      latitude |-> geoData.latitude,
      longitude |-> geoData.longitude,
      userAgent |-> userAgent,
      browser |-> parsed.browser,
      os |-> parsed.os,
      device |-> parsed.device,
      referrer |-> referrer,
      portNumber |-> IF enriched THEN portNumber ELSE Undefined,
      cameraPermission |-> IF enriched THEN Str("not_requested") ELSE Undefined,
      locationPermission |-> IF enriched THEN Str("not_requested") ELSE Undefined,
      userLatitude |-> Undefined,
      userLongitude |-> Undefined,
      screenResolution |-> IF enriched THEN Str("Unknown") ELSE Undefined,
      language |-> IF enriched THEN Str("Unknown") ELSE Undefined,
      timezone |-> IF enriched THEN Str("Unknown") ELSE Undefined,
      connectionType |-> IF enriched THEN Str("Unknown") ELSE Undefined]

\* a handler that assigns every field, supplied or not
assignsFieldAlways(f, value) == TRUE

\* a handler that skips null for every field
assignsFieldNotNull(f, value) == value # Undefined /\ value # Null

\* whether track-update assigns payload field f
assignsField(f, value) ==
  IF f \in {"userLatitude", "userLongitude"}
  THEN value # Undefined /\ value # Null
  ELSE value # Undefined

\* the paths of the last record that the assignments changed: what save() writes
modifiedFields(record, payload) ==
  {f \in EnrichFields : assignsField(f, payload[f]) /\ payload[f] # record[f]}

\* a save that also writes the client's coordinates over the lookup's
setFieldsOverGeo(record, payload, fields) ==
  [f \in DOMAIN record |->
     IF f \in fields THEN payload[f]
     ELSE IF f = "latitude" /\ "userLatitude" \in fields THEN payload.userLatitude
     ELSE IF f = "longitude" /\ "userLongitude" \in fields THEN payload.userLongitude
     ELSE record[f]]

\* one record with the modified paths set
setFields(record, payload, fields) ==
  [f \in DOMAIN record |-> IF f \in fields THEN payload[f] ELSE record[f]]

\* a save that writes the whole clickRecords array as the handler read it
saveWholeArray(docs, oid, index, payload, fields) ==
  IF \E d \in docs : d._id = oid
  THEN LET doc == CHOOSE d \in docs : d._id = oid
       IN (docs \ {doc}) \cup
          {[doc EXCEPT !.clickRecords =
              SubSeq([@ EXCEPT ![index] = setFields(@, payload, fields)], 1, index)]}
  ELSE docs

\* link.save(): updateOne({ _id }, { $set: { 'clickRecords.<index>.<field>': value } })
saveDelta(docs, oid, index, payload, fields) ==
  IF \E d \in docs : d._id = oid
  THEN LET doc == CHOOSE d \in docs : d._id = oid
       IN (docs \ {doc}) \cup
          {[doc EXCEPT !.clickRecords[index] = setFields(@, payload, fields)]}
  ELSE docs

(***************************************************************************)
(* State                                                                   *)
(*   scope     the sets the inputs are drawn from                          *)
(*   variant   which server runs                                           *)
(*   store     the Link documents                                          *)
(*   now       the clock read by Date.now() and new Date()                 *)
(*   inflight  the requests being handled: position and locals of each    *)
(*             handler that is waiting on an await                         *)
(*   response  the response sent last                                      *)
(*   pages     interstitial pages loaded in browsers that have not posted  *)
(*             their track-update yet: the link and the click they are for *)
(*   nRequests create, track and track-update requests started so far      *)
(***************************************************************************)
noResponse == [op |-> "none", status |-> 0]

InitIn(sc) ==
  /\ scope = sc
  /\ variant \in VariantsIn(sc)
  /\ store = {}
  /\ now = 0
  /\ inflight = {}
  /\ response = noResponse
  /\ pages = {}
  /\ nRequests = 0

Init == InitIn("system")
InitRequests == InitIn("requests")
InitPayloads == InitIn("payloads")
InitInputs == InitIn("inputs")

\* the values a read of the clock can give: time passes between reads
ClockReads == {t \in {now, now + 1} : t <= MaxTime}

\* a handler whose await never settles
resumeNever(h, next) == inflight

\* a handler moves on from an await
resume(h, next) == (inflight \ {h}) \cup {next}

\* the identifier given to the next request, and to the document or click record
\* it creates
nextId == nRequests + 1

(***************************************************************************)
(* POST /api/links                                                         *)
(***************************************************************************)
\* newLink.save(): validation, then the insert
saveNewLink(docs, doc) ==
  IF passesValidation(doc.name, doc.destinationUrl) THEN insertLink(docs, doc) ELSE docs

CreateLink(linkId, name, destinationUrl, time) ==
  /\ nRequests < MaxRequests
  /\ time \in ClockReads
  /\ now' = time
  /\ LET doc == newLink(nextId, linkId, name, destinationUrl, time)
     IN /\ store' = saveNewLink(store, doc)
        /\ response' = [op |-> "create", status |-> IF doc \in store' THEN 200 ELSE 500]
  /\ nRequests' = nRequests + 1
  /\ UNCHANGED <<scope, variant, inflight, pages>>

(***************************************************************************)
(* GET /api/links                                                          *)
(***************************************************************************)
\* the orders in which a find() can return the documents
Orders(docs) ==
  {list \in [1..Cardinality(docs) -> docs] : \A d \in docs : \E i \in DOMAIN list : list[i] = d}

\* sort({ createdAt: 1 })
sortOldestFirst(docs) ==
  {list \in Orders(docs) :
     \A i, j \in DOMAIN list : i < j => list[i].createdAt.v <= list[j].createdAt.v}

\* Link.find().sort({ createdAt: -1 }): documents created at the same time come
\* in any order
sortNewestFirst(docs) ==
  {list \in Orders(docs) :
     \A i, j \in DOMAIN list : i < j => list[i].createdAt.v >= list[j].createdAt.v}

\* what the model keeps of a document in a response body
inResponse(doc) == [_id |-> doc._id, linkId |-> doc.linkId, createdAt |-> doc.createdAt]

GetLinks(links) ==
  /\ links \in sortNewestFirst(store)
  /\ response' = [op |-> "links", status |-> 200,
                  links |-> [i \in DOMAIN links |-> inResponse(links[i])]]
  /\ UNCHANGED <<scope, variant, store, now, inflight, pages, nRequests>>

(***************************************************************************)
(* DELETE /api/links/:linkId                                               *)
(***************************************************************************)
DeleteLink(linkId) ==
  /\ store' = findOneAndDelete(store, linkId)
  /\ response' = [op |-> "delete", status |-> 200]
  /\ UNCHANGED <<scope, variant, now, inflight, pages, nRequests>>

(***************************************************************************)
(* GET /api/links/:linkId/records                                          *)
(***************************************************************************)
recordsStatus(link) == IF link = Null THEN 404 ELSE 200

GetRecords(linkId) ==
  /\ variant # "basic"
  /\ response' = [op |-> "records", status |-> recordsStatus(findOne(store, linkId))]
  /\ UNCHANGED <<scope, variant, store, now, inflight, pages, nRequests>>

(***************************************************************************)
(* GET /track/:linkId                                                      *)
(***************************************************************************)
\* the request arrives: the headers are read and the user-agent parsed; the
\* handler then awaits getGeolocation.  The basic variant builds its update
\* (with lastClicked) and awaits findOneAndUpdate.
TrackStart(linkId, req, time) ==
  /\ Cardinality(inflight) < InFlightIn(scope)
  /\ nRequests < MaxRequests
  /\ IF variant = "basic"
     THEN /\ time \in ClockReads
          /\ inflight' = inflight \cup
               {[pc |-> "update", op |-> "track", linkId |-> linkId, rid |-> nextId,
                 clickRecord |-> Null, lastClicked |-> Date(time)]}
     ELSE /\ time = now
          /\ LET userAgent == OrText(req.userAgent, sUnknown)
             IN inflight' = inflight \cup
                  {[pc |-> "geo", op |-> "track", linkId |-> linkId, rid |-> nextId,
                    ipAddress |-> getClientIp(req),
                    userAgent |-> userAgent,
                    referrer |-> OrText(req.referer, OrText(req.referrer, sDirect)),
                    parsed |-> parseUserAgent(userAgent),
                    portNumber |-> Or(req.remotePort, Null)]}
  /\ now' = time
  /\ nRequests' = nRequests + 1
  /\ UNCHANGED <<scope, variant, store, response, pages>>

\* getGeolocation settles: the click record is built, with its timestamp.  The
\* interstitial variant then awaits findOne; the direct variant builds its update
\* (with lastClicked) and awaits findOneAndUpdate.
TrackGeo(h, lookup, time) ==
  /\ h \in inflight
  /\ h.pc = "geo"
  /\ lookup \in (IF skipsLookup(h.ipAddress) THEN {noLookup} ELSE LookupsIn(scope))
  /\ time \in ClockReads
  /\ now' = time
  /\ LET clickRecord ==
           buildClickRecord(h.rid, variant, time, h.ipAddress,
                            getGeolocation(h.ipAddress, lookup), h.userAgent, h.parsed,
                            h.referrer, h.portNumber)
     IN inflight' = resume(h,
          IF variant = "interstitial"
          THEN [pc |-> "find", op |-> "track", linkId |-> h.linkId, rid |-> h.rid,
                clickRecord |-> clickRecord]
          ELSE [pc |-> "update", op |-> "track", linkId |-> h.linkId, rid |-> h.rid,
                clickRecord |-> clickRecord, lastClicked |-> Date(time)])
  /\ UNCHANGED <<scope, variant, store, response, pages, nRequests>>

\* interstitial variant: findOne settles; 404 when there is no link, otherwise the
\* update is built (with lastClicked) and the handler awaits findOneAndUpdate
TrackFind(h, time) ==
  /\ h \in inflight
  /\ h.pc = "find"
  /\ LET link == findOne(store, h.linkId)
     IN IF link = Null
        THEN /\ time = now
             /\ inflight' = inflight \ {h}
             /\ response' = [op |-> "track", status |-> 404]
        ELSE /\ time \in ClockReads
             /\ inflight' = resume(h,
                  [pc |-> "update", op |-> "track", linkId |-> h.linkId, rid |-> h.rid,
                   clickRecord |-> h.clickRecord, lastClicked |-> Date(time)])
             /\ response' = response
  /\ now' = time
  /\ UNCHANGED <<scope, variant, store, pages, nRequests>>

\* the status the track handler answers after findOneAndUpdate returned `updated`
\* (the new document, or null): the interstitial variant does not look at it
trackStatus(variantName, updated) ==
  IF variantName = "interstitial" THEN 200
  ELSE IF updated = Null THEN 404 ELSE 302

\* findOneAndUpdate is applied by the store and the response is sent; the
\* interstitial page is then loaded by the browser
TrackWrite(h) ==
  /\ h \in inflight
  /\ h.pc = "update"
  /\ store' = findOneAndUpdate(store, h.linkId, h.clickRecord, h.lastClicked,
                               variant # "basic")
  /\ inflight' = inflight \ {h}
  /\ response' = [op |-> "track",
                  status |-> trackStatus(variant, findOne(store', h.linkId))]
  /\ pages' = IF variant = "interstitial"
              THEN pages \cup {[linkId |-> h.linkId, click |-> h.rid]}
              ELSE pages
  /\ UNCHANGED <<scope, variant, now, nRequests>>

(***************************************************************************)
(* POST /api/track-update/:linkId                                          *)
(***************************************************************************)
\* a guard that only looks for the link
noLinkToUpdate(link) == link = Null

\* the guard of the 404 answer
noRecordToUpdate(link) ==
  \/ link = Null
  \/ Len(link.clickRecords) = 0

\* a handler that selects the first record
firstIndexOf(link) == 1

\* lastIndex, counted from 1
lastIndexOf(link) == Len(link.clickRecords)

\* link.clickRecords[lastIndex]: undefined when there is no such element
recordAt(link, index) ==
  IF index \in 1..Len(link.clickRecords) THEN link.clickRecords[index] ELSE Undefined

\* the request arrives and findOne settles.  `origin` is the click whose page
\* posts the request (0: another client); it is not part of the request.
\* Assigning to a field of a missing record throws: the catch answers 500.
TrackUpdateFind(linkId, payload, origin) ==
  /\ variant = "interstitial"
  /\ Cardinality(inflight) < InFlightIn(scope)
  /\ nRequests < MaxRequests
  /\ \/ origin = 0
     \/ /\ [linkId |-> linkId, click |-> origin] \in pages
        /\ payload \in ClientPayloads
  /\ LET link == findOne(store, linkId)
     IN IF noRecordToUpdate(link)
        THEN /\ inflight' = inflight
             /\ response' = [op |-> "trackUpdate", status |-> 404]
        ELSE IF /\ recordAt(link, lastIndexOf(link)) = Undefined
                /\ \E f \in EnrichFields : assignsField(f, payload[f])
        THEN /\ inflight' = inflight
             /\ response' = [op |-> "trackUpdate", status |-> 500]
        ELSE /\ inflight' = inflight \cup
                  {[pc |-> "save", op |-> "trackUpdate", linkId |-> linkId,
                    uid |-> nextId, payload |-> payload, origin |-> origin,
                    oid |-> link._id, lastIndex |-> lastIndexOf(link),
                    lastRecord |-> recordAt(link, lastIndexOf(link))]}
             /\ response' = response
  /\ pages' = pages \ {[linkId |-> linkId, click |-> origin]}
  /\ nRequests' = nRequests + 1
  /\ UNCHANGED <<scope, variant, store, now>>

\* the statuses save() can lead to: when the document is gone the update matches
\* nothing, which save() reports as an error or not, depending on the library version
saveStatuses(docs, oid) ==
  IF \E d \in docs : d._id = oid THEN {200} ELSE {200, 500}

\* link.save() is applied by the store and the response is sent
TrackUpdateSave(h, status) ==
  /\ h \in inflight
  /\ h.pc = "save"
  /\ status \in saveStatuses(store, h.oid)
  /\ LET fields == IF h.lastRecord = Undefined THEN {}
                   ELSE modifiedFields(h.lastRecord, h.payload)
     IN store' = saveDelta(store, h.oid, h.lastIndex, h.payload, fields)
  /\ inflight' = inflight \ {h}
  /\ response' = [op |-> "trackUpdate", status |-> status]
  /\ UNCHANGED <<scope, variant, now, pages, nRequests>>

(***************************************************************************)
(* The system                                                              *)
(***************************************************************************)
Times == 0..MaxTime
AllLookups ==
  {lookupSuccess, lookupSparse, lookupFail, lookupNetworkError, lookupMalformed,
   noLookup}

Next ==
  \/ \E linkId \in LinkIdsIn(scope), name \in Names, destinationUrl \in Urls,
        time \in Times :
       CreateLink(linkId, name, destinationUrl, time)
  \/ \E links \in sortNewestFirst(store) : GetLinks(links)
  \/ \E linkId \in LinkIdsIn(scope) : DeleteLink(linkId)
  \/ \E linkId \in LinkIdsIn(scope) : GetRecords(linkId)
  \/ \E linkId \in LinkIdsIn(scope), req \in TrackRequestsIn(scope), time \in Times :
       TrackStart(linkId, req, time)
  \/ \E h \in inflight, lookup \in AllLookups, time \in Times : TrackGeo(h, lookup, time)
  \/ \E h \in inflight, time \in Times : TrackFind(h, time)
  \/ \E h \in inflight : TrackWrite(h)
  \/ \E linkId \in LinkIdsIn(scope), payload \in PayloadsIn(scope),
        origin \in 0..MaxRequests :
       TrackUpdateFind(linkId, payload, origin)
  \/ \E h \in inflight, status \in {200, 500} : TrackUpdateSave(h, status)

\* two links, every variant
Spec == Init /\ [][Next]_vars
\* the routes that write to the store or depend on what a click wrote; the
\* read-only routes (GET /api/links, GET /api/links/:linkId/records) change
\* nothing these read
NextRequests ==
  \/ \E linkId \in LinkIdsIn(scope), name \in Names, destinationUrl \in Urls,
        time \in Times :
       CreateLink(linkId, name, destinationUrl, time)
  \/ \E linkId \in LinkIdsIn(scope) : DeleteLink(linkId)
  \/ \E linkId \in LinkIdsIn(scope), req \in TrackRequestsIn(scope), time \in Times :
       TrackStart(linkId, req, time)
  \/ \E h \in inflight, lookup \in AllLookups, time \in Times : TrackGeo(h, lookup, time)
  \/ \E h \in inflight, time \in Times : TrackFind(h, time)
  \/ \E h \in inflight : TrackWrite(h)
  \/ \E linkId \in LinkIdsIn(scope), payload \in PayloadsIn(scope),
        origin \in 0..MaxRequests :
       TrackUpdateFind(linkId, payload, origin)
  \/ \E h \in inflight, status \in {200, 500} : TrackUpdateSave(h, status)

\* one link, every kind of click
SpecRequests == InitRequests /\ [][NextRequests]_vars
\* one link, every kind of track-update payload
SpecPayloads == InitPayloads /\ [][Next]_vars

\* the system while no link is deleted
NextNoDelete ==
  \/ \E linkId \in LinkIdsIn(scope), name \in Names, destinationUrl \in Urls,
        time \in Times :
       CreateLink(linkId, name, destinationUrl, time)
  \/ \E linkId \in LinkIdsIn(scope), req \in TrackRequestsIn(scope), time \in Times :
       TrackStart(linkId, req, time)
  \/ \E h \in inflight, lookup \in AllLookups, time \in Times : TrackGeo(h, lookup, time)
  \/ \E h \in inflight, time \in Times : TrackFind(h, time)
  \/ \E h \in inflight : TrackWrite(h)
  \/ \E linkId \in LinkIdsIn(scope), payload \in PayloadsIn(scope),
        origin \in 0..MaxRequests :
       TrackUpdateFind(linkId, payload, origin)
  \/ \E h \in inflight, status \in {200, 500} : TrackUpdateSave(h, status)

SpecNoDelete == InitRequests /\ [][NextNoDelete]_vars

\* the system while no identifier is generated twice: the one link is created
\* first, and once deleted its linkId does not come back
NextFreshIds ==
  \/ \E linkId \in LinkIdsIn(scope), name \in Names, destinationUrl \in Urls,
        time \in Times :
       nRequests = 0 /\ CreateLink(linkId, name, destinationUrl, time)
  \/ \E linkId \in LinkIdsIn(scope) : DeleteLink(linkId)
  \/ \E linkId \in LinkIdsIn(scope), req \in TrackRequestsIn(scope), time \in Times :
       TrackStart(linkId, req, time)
  \/ \E h \in inflight, lookup \in AllLookups, time \in Times : TrackGeo(h, lookup, time)
  \/ \E h \in inflight, time \in Times : TrackFind(h, time)
  \/ \E h \in inflight : TrackWrite(h)
  \/ \E linkId \in LinkIdsIn(scope), payload \in PayloadsIn(scope),
        origin \in 0..MaxRequests :
       TrackUpdateFind(linkId, payload, origin)
  \/ \E h \in inflight, status \in {200, 500} : TrackUpdateSave(h, status)

SpecFreshIds == InitRequests /\ [][NextFreshIds]_vars

\* links and clicks, where every call a track handler awaits settles: the
\* geolocation lookup, findOne and findOneAndUpdate
GeoSettles == \E h \in inflight, lookup \in AllLookups, time \in Times : TrackGeo(h, lookup, time)
FindSettles == \E h \in inflight, time \in Times : TrackFind(h, time)
UpdateSettles == \E h \in inflight : TrackWrite(h)

NextTrack ==
  \/ \E linkId \in LinkIdsIn(scope), name \in Names, destinationUrl \in Urls,
        time \in Times :
       CreateLink(linkId, name, destinationUrl, time)
  \/ \E linkId \in LinkIdsIn(scope) : DeleteLink(linkId)
  \/ \E linkId \in LinkIdsIn(scope), req \in TrackRequestsIn(scope), time \in Times :
       TrackStart(linkId, req, time)
  \/ GeoSettles
  \/ FindSettles
  \/ UpdateSettles

SpecTrackSettles ==
  /\ Init
  /\ [][NextTrack]_vars
  /\ WF_vars(GeoSettles)
  /\ WF_vars(FindSettles)
  /\ WF_vars(UpdateSettles)

\* the click recorder alone (direct variant), fed every user-agent and address:
\* parseUserAgent, getClientIp and getGeolocation on all their inputs
NextInputs ==
  \/ \E linkId \in LinkIdsIn(scope), req \in TrackRequestsIn(scope), time \in Times :
       TrackStart(linkId, req, time)
  \/ \E h \in inflight, lookup \in AllLookups, time \in Times : TrackGeo(h, lookup, time)
  \/ \E h \in inflight : TrackWrite(h)

SpecInputs == InitInputs /\ [][NextInputs]_vars

(***************************************************************************)
(* The interstitial page: collectTrackingData in the browser.  In this     *)
(* specification a page of `pages` carries the position and the locals of  *)
(* its script; the server is not part of it, the answer to the page's POST *)
(* is any of the answers a server or the network can give.  A step runs    *)
(* the script from one await to the next; `throws` is an unexpected        *)
(* exception in that stretch, outside the inner try blocks.                *)
(***************************************************************************)
\* the page as loaded: the script has its constants, nothing has run
loadedPage ==
  [linkId |-> "link_1", click |-> 1, destinationUrl |-> Str("https://a.example"),
   pc |-> "start", cameraPermission |-> "unset", locationPermission |-> "unset",
   coords |-> FALSE, posts |-> 0, post |-> "none", delay |-> 0,
   location |-> Str("/track/link_1")]

InitPage ==
  /\ scope = "page"
  /\ variant = "interstitial"
  /\ store = {}
  /\ now = 0
  /\ inflight = {}
  /\ response = noResponse
  /\ pages = {loadedPage}
  /\ nRequests = 0

CameraOutcomes == {"stream", "NotAllowedError", "NotFoundError", "timeout", "OtherError"}
LocationOutcomes == {"position", "code1", "code2", "code3", "timeout", "other"}

\* trackingData.cameraPermission after the camera request settled
cameraResult(outcome) ==
  CASE outcome = "stream" -> "granted"
    [] outcome = "NotAllowedError" -> "denied"
    [] outcome = "NotFoundError" -> "no_camera"
    [] outcome = "timeout" -> "timeout"
    [] OTHER -> "not_supported"

\* trackingData.locationPermission after the position request settled
locationResult(outcome) ==
  CASE outcome = "position" -> "granted"
    [] outcome = "code1" -> "denied"
    [] outcome = "code2" -> "unavailable"
    [] outcome \in {"code3", "timeout"} -> "timeout"
    [] OTHER -> "error"

\* setTimeout(() => { window.location.href = destinationUrl }, ms)
scheduleRedirect(page, ms) == [page EXCEPT !.pc = "timer", !.delay = ms]

\* an outer catch that does not redirect
catchFatalNoRedirect(page) == [page EXCEPT !.pc = "failed"]

\* the outer catch: still redirect
catchFatal(page) == scheduleRedirect(page, 2000)

\* fetch(API_BASE + '/api/track-update/' + linkId, { method: 'POST', ... })
sendData(page) == [page EXCEPT !.pc = "post", !.posts = @ + 1, !.post = "pending"]

\* the location part, up to its await or, without the API, up to the fetch
requestLocation(page, geoApi) ==
  IF geoApi THEN [page EXCEPT !.pc = "location"]
  ELSE sendData([page EXCEPT !.locationPermission = "not_supported"])

\* the script starts: basic data, then the camera request if the API is there
CollectStart(page, cameraApi, geoApi, throws) ==
  /\ page \in pages
  /\ page.pc = "start"
  /\ LET data == [page EXCEPT !.cameraPermission = "not_requested",
                              !.locationPermission = "not_requested"]
     IN pages' = (pages \ {page}) \cup
          {IF throws THEN catchFatal(data)
           ELSE IF cameraApi THEN [data EXCEPT !.pc = "camera"]
           ELSE requestLocation([data EXCEPT !.cameraPermission = "not_supported"],
                                geoApi)}
  /\ UNCHANGED <<scope, variant, store, now, inflight, response, nRequests>>

\* Promise.race([cameraPromise, timeoutPromise]) settles
CameraSettles(page, outcome, geoApi, throws) ==
  /\ page \in pages
  /\ page.pc = "camera"
  /\ LET data == [page EXCEPT !.cameraPermission = cameraResult(outcome)]
     IN pages' = (pages \ {page}) \cup
          {IF throws THEN catchFatal(data) ELSE requestLocation(data, geoApi)}
  /\ UNCHANGED <<scope, variant, store, now, inflight, response, nRequests>>

\* the position promise settles (its own timer rejects it after 10 s)
LocationSettles(page, outcome, throws) ==
  /\ page \in pages
  /\ page.pc = "location"
  /\ LET data == [page EXCEPT !.locationPermission = locationResult(outcome),
                              !.coords = (outcome = "position")]
     IN pages' = (pages \ {page}) \cup
          {IF throws THEN catchFatal(data) ELSE sendData(data)}
  /\ UNCHANGED <<scope, variant, store, now, inflight, response, nRequests>>

\* fetch settles: a response (then response.json() is awaited) or a rejection,
\* which the inner catch logs before the redirect is scheduled
FetchSettles(page, outcome, throws) ==
  /\ page \in pages
  /\ page.pc = "post"
  /\ pages' = (pages \ {page}) \cup
       {IF outcome = "response" THEN [page EXCEPT !.pc = "json"]
        ELSE IF throws THEN catchFatal([page EXCEPT !.post = "failed"])
        ELSE scheduleRedirect([page EXCEPT !.post = "failed"], 1000)}
  /\ UNCHANGED <<scope, variant, store, now, inflight, response, nRequests>>

\* response.json() settles: success, { success: false }, or a body that is not JSON
JsonSettles(page, outcome, throws) ==
  /\ page \in pages
  /\ page.pc = "json"
  /\ LET data == [page EXCEPT !.post = outcome]
     IN pages' = (pages \ {page}) \cup
          {IF throws THEN catchFatal(data) ELSE scheduleRedirect(data, 1000)}
  /\ UNCHANGED <<scope, variant, store, now, inflight, response, nRequests>>

\* the timer fires: window.location.href = destinationUrl
RedirectTimerFires(page) ==
  /\ page \in pages
  /\ page.pc = "timer"
  /\ pages' = (pages \ {page}) \cup
       {[page EXCEPT !.pc = "navigated", !.location = page.destinationUrl]}
  /\ UNCHANGED <<scope, variant, store, now, inflight, response, nRequests>>

NextPage ==
  \/ \E page \in pages, cameraApi \in BOOLEAN, geoApi \in BOOLEAN, throws \in BOOLEAN :
       CollectStart(page, cameraApi, geoApi, throws)
  \/ \E page \in pages, outcome \in CameraOutcomes, geoApi \in BOOLEAN,
        throws \in BOOLEAN :
       CameraSettles(page, outcome, geoApi, throws)
  \/ \E page \in pages, outcome \in LocationOutcomes, throws \in BOOLEAN :
       LocationSettles(page, outcome, throws)
  \/ \E page \in pages, outcome \in {"response", "rejected"}, throws \in BOOLEAN :
       FetchSettles(page, outcome, throws)
  \/ \E page \in pages, outcome \in {"success", "error", "malformed"},
        throws \in BOOLEAN :
       JsonSettles(page, outcome, throws)
  \/ \E page \in pages : RedirectTimerFires(page)

\* every request of the page settles and every timer fires
SpecPage == InitPage /\ [][NextPage]_vars /\ WF_vars(NextPage)

(***************************************************************************)
(* Properties                                                              *)
(***************************************************************************)
hasId(docs, oid) == \E d \in docs : d._id = oid
docById(docs, oid) == CHOOSE d \in docs : d._id = oid
hasLink(docs, linkId) == \E d \in docs : d.linkId = linkId
linkOf(docs, linkId) == CHOOSE d \in docs : d.linkId = linkId

\* the fields of a link other than its counters and history
identityOf(d) ==
  <<d._id, d.linkId, d.name, d.destinationUrl, d.createdAt>>

enrichmentOf(record) == [f \in EnrichFields |-> record[f]]

sentinelEnrichment ==
  [cameraPermission |-> Str("not_requested"), locationPermission |-> Str("not_requested"),
   userLatitude |-> Undefined, userLongitude |-> Undefined,
   screenResolution |-> Str("Unknown"), language |-> Str("Unknown"),
   timezone |-> Str("Unknown"), connectionType |-> Str("Unknown")]

\* handler h takes its last step
Finishes(h) == h \in inflight /\ h \notin inflight'

\* C1: in the interstitial and the direct variant, the store write of a track
\* handler whose link exists adds exactly 1 to that link's click count, appends
\* exactly the handler's click record at the end of the history and sets
\* lastClicked; nothing else of the link and no other link changes.
C1_TrackWriteAddsOneClick ==
  [][\A h \in inflight :
       (/\ Finishes(h)
        /\ h.pc = "update"
        /\ variant \in {"interstitial", "direct"}
        /\ hasLink(store, h.linkId))
       => /\ hasLink(store', h.linkId)
          /\ LET before == linkOf(store, h.linkId)
                 after == linkOf(store', h.linkId)
             IN /\ after.clicks = before.clicks + 1
                /\ Len(after.clickRecords) = Len(before.clickRecords) + 1
                /\ SubSeq(after.clickRecords, 1, Len(before.clickRecords)) =
                     before.clickRecords
                /\ after.clickRecords[Len(after.clickRecords)] = h.clickRecord
                /\ after.lastClicked \in {Date(t) : t \in Times}
                /\ after.lastClicked = h.lastClicked
                /\ identityOf(after) = identityOf(before)
                /\ store' \ {after} = store \ {before}]_vars

\* a second, different click has been recorded on a link
C1_Witness ==
  /\ scope = "requests"
  /\ response.op = "track"
  /\ response.status \in {200, 302}
  /\ \E d \in store :
       /\ d.clicks = 2
       /\ Len(d.clickRecords) = 2
       /\ d.clickRecords[1].ipAddress # d.clickRecords[2].ipAddress
       /\ d.clickRecords[1].country # d.clickRecords[2].country

\* C2: a track handler whose lookup finds no link (findOne in the interstitial
\* variant, findOneAndUpdate in the direct and basic variants) answers 404 and
\* leaves the store unchanged, whatever the request and the geolocation were;
\* the steps before the lookup do not touch the store either.
C2_UnknownLinkIs404 ==
  [][\A h \in inflight :
       /\ (Finishes(h) /\ h.op = "track" /\ h.pc \in {"geo", "find"}) => store' = store
       /\ (/\ Finishes(h)
           /\ h.op = "track"
           /\ h.pc = (IF variant = "interstitial" THEN "find" ELSE "update")
           /\ ~hasLink(store, h.linkId))
          => /\ response' = [op |-> "track", status |-> 404]
             /\ store' = store
             /\ pages' = pages]_vars

\* a proxied click on an unknown identifier was answered 404 by the direct variant
C2_Witness ==
  /\ scope = "requests"
  /\ variant = "direct"
  /\ response = [op |-> "track", status |-> 404]
  /\ store = {}
  /\ inflight = {}
  /\ nRequests = 1

\* C3: in the variants that keep click records, every link's click count equals
\* the length of its click-record sequence in every state.
C3_ClicksEqualRecords ==
  variant # "basic" => \A d \in store : d.clicks = Len(d.clickRecords)

\* a track appended a record between a track-update's read and its save: the
\* update (the only one so far) went to the first record, the second is untouched
C3_Witness ==
  /\ variant = "interstitial"
  /\ response = [op |-> "trackUpdate", status |-> 200]
  /\ inflight = {}
  /\ \E d \in store :
       /\ d.clicks = 2
       /\ Len(d.clickRecords) = 2
       /\ enrichmentOf(d.clickRecords[1]) # sentinelEnrichment
       /\ enrichmentOf(d.clickRecords[2]) = sentinelEnrichment
       /\ d.lastClicked = d.clickRecords[2].timestamp

\* a track-update handler takes its last step, save(), and answers success
SaveSucceeds(h) ==
  /\ Finishes(h)
  /\ h.pc = "save"
  /\ response'.status = 200

\* the record the handler selected is, in the store, still the last one and
\* still as the handler read it
Undisturbed(h) ==
  /\ hasId(store, h.oid)
  /\ Len(docById(store, h.oid).clickRecords) = h.lastIndex
  /\ docById(store, h.oid).clickRecords[h.lastIndex] = h.lastRecord

C5_EveryPresentFieldIsStored ==
  [][\A h \in inflight :
       (SaveSucceeds(h) /\ hasId(store', h.oid)) =>
         LET after == docById(store', h.oid)
         IN \A f \in EnrichFields :
              h.payload[f] # Undefined
              => after.clickRecords[Len(after.clickRecords)][f] = h.payload[f]]_vars

\* C5 amended: after a successful update whose selected record was not changed
\* and stayed the last between the handler's lookup and its save, each of the
\* six string fields present with a value other than undefined (null included)
\* and each of userLatitude, userLongitude present with a value other than
\* undefined and null equals the payload value in the last click record; a null
\* userLatitude or userLongitude leaves the field as it was.
C5_PresentFieldIsStored ==
  [][\A h \in inflight :
       (SaveSucceeds(h) /\ Undisturbed(h)) =>
         /\ hasId(store', h.oid)
         /\ LET before == docById(store, h.oid)
                after == docById(store', h.oid)
                last == Len(after.clickRecords)
            IN \A f \in EnrichFields :
                 /\ (f \notin {"userLatitude", "userLongitude"} /\ h.payload[f] # Undefined)
                    => after.clickRecords[last][f] = h.payload[f]
                 /\ (f \in {"userLatitude", "userLongitude"}
                       /\ h.payload[f] \notin {Undefined, Null})
                    => after.clickRecords[last][f] = h.payload[f]
                 /\ (f \in {"userLatitude", "userLongitude"} /\ h.payload[f] = Null)
                    => after.clickRecords[last][f] = before.clickRecords[last][f]]_vars

\* a null cameraPermission was stored, and coordinates were stored
C5_Witness ==
  /\ scope = "payloads"
  /\ response = [op |-> "trackUpdate", status |-> 200]
  /\ \E d \in store :
       /\ Len(d.clickRecords) = 1
       /\ d.clickRecords[1].cameraPermission = Null
       /\ d.clickRecords[1].userLatitude = payloadGranted.userLatitude
       /\ d.clickRecords[1].userLatitude \notin {Undefined, Null}

\* the link is absent or has no click record
absentOrEmpty(docs, linkId) ==
  \/ ~hasLink(docs, linkId)
  \/ Len(linkOf(docs, linkId).clickRecords) = 0

trackUpdateAnswer(status) == [op |-> "trackUpdate", status |-> status]

\* C6: the lookup of a track-update answers 404 exactly when the link is absent
\* or has no click record, and then changes nothing; otherwise it answers nothing
\* yet and goes on to save a record it found.  A 404 is answered by no other
\* step, and success only by the save of a handler that found a record.
C6_NotFoundIffNoRecord ==
  [][/\ \A linkId \in LinkIdsIn(scope) :
          (\E payload \in PayloadsIn(scope), origin \in 0..MaxRequests :
             TrackUpdateFind(linkId, payload, origin))
          => /\ store' = store
             /\ IF absentOrEmpty(store, linkId)
                THEN /\ response' = trackUpdateAnswer(404)
                     /\ inflight' = inflight
                ELSE /\ response' = response
                     /\ \E h \in inflight' \ inflight :
                          /\ inflight' = inflight \cup {h}
                          /\ h.pc = "save"
                          /\ h.linkId = linkId
                          /\ h.lastIndex >= 1
                          /\ h.lastRecord = linkOf(store, linkId).clickRecords[h.lastIndex]
     /\ (response' = trackUpdateAnswer(404) /\ response' # response)
        => /\ store' = store
           /\ inflight' = inflight
           /\ \E linkId \in LinkIdsIn(scope) : absentOrEmpty(store, linkId)
     /\ (response' = trackUpdateAnswer(200) /\ response' # response)
        => \E h \in inflight :
             /\ Finishes(h)
             /\ h.pc = "save"
             /\ h.lastIndex >= 1]_vars

\* a track-update on a link that exists with zero click records was answered 404
C6_Witness ==
  /\ scope = "payloads"
  /\ response = trackUpdateAnswer(404)
  /\ nRequests = 2
  /\ \E d \in store : d.clicks = 0 /\ Len(d.clickRecords) = 0

\* C7: a track-update posted by the page of click A that selected the record of
\* another click B (B was recorded on the same link before the lookup) leaves
\* A's record as it was and writes the payload to B's record; the selection at
\* lookup is the last record whatever page posted the request.
C7_LateUpdateGoesToLatestClick ==
  [][/\ \A h \in inflight :
          (/\ SaveSucceeds(h)
           /\ h.origin # 0
           /\ h.lastRecord._id # h.origin
           /\ hasId(store, h.oid))
          => /\ hasId(store', h.oid)
             /\ LET before == docById(store, h.oid)
                    after == docById(store', h.oid)
                IN /\ Len(after.clickRecords) = Len(before.clickRecords)
                   /\ \A i \in 1..Len(before.clickRecords) :
                        before.clickRecords[i]._id = h.origin
                        => after.clickRecords[i] = before.clickRecords[i]
                   /\ after.clickRecords[h.lastIndex]._id = h.lastRecord._id
                   /\ \A f \in EnrichFields :
                        (/\ h.payload[f] # Undefined
                         /\ before.clickRecords[h.lastIndex][f] = h.lastRecord[f])
                        => after.clickRecords[h.lastIndex][f] = h.payload[f]
     /\ \A h \in inflight' \ inflight :
          h.pc = "save"
          => /\ hasLink(store, h.linkId)
             /\ h.lastIndex = Len(linkOf(store, h.linkId).clickRecords)
             /\ h.lastRecord = linkOf(store, h.linkId).clickRecords[h.lastIndex]]_vars

\* the page of the first click posted the only track-update after the second
\* click was recorded: the first record keeps its sentinels, the second is enriched,
\* and the second click's page has not posted yet
C7_Witness ==
  /\ variant = "interstitial"
  /\ response = trackUpdateAnswer(200)
  /\ nRequests = 4
  /\ \E d \in store :
       /\ Len(d.clickRecords) = 2
       /\ enrichmentOf(d.clickRecords[1]) = sentinelEnrichment
       /\ d.clickRecords[2].cameraPermission \in {Str("granted"), Str("denied")}
       /\ pages = {[linkId |-> d.linkId, click |-> d.clickRecords[2]._id]}

\* C8 as stated: once the enrichment fields of a click record hold values other
\* than the creation-time sentinels, no step changes them.
C8_EnrichedAtMostOnce ==
  [][\A d \in store :
       hasId(store', d._id) =>
         \A i \in 1..Len(d.clickRecords) :
           enrichmentOf(d.clickRecords[i]) # sentinelEnrichment
           => enrichmentOf(docById(store', d._id).clickRecords[i]) =
                enrichmentOf(d.clickRecords[i])]_vars

\* C9: delete makes the link absent, answers success also when the link was
\* already absent (and then changes nothing) and never changes another link;
\* records-fetch answers 404 exactly when the link is absent; an absent link
\* becomes present again only by a successful create, which starts it with no
\* clicks and no click records.
C9_DeleteRemovesLinkOnly ==
  [][\A linkId \in LinkIdsIn(scope) :
       /\ DeleteLink(linkId)
          => /\ ~hasLink(store', linkId)
             /\ {d \in store' : d.linkId # linkId} = {d \in store : d.linkId # linkId}
             /\ response' = [op |-> "delete", status |-> 200]
             /\ (~hasLink(store, linkId) => store' = store)
       /\ GetRecords(linkId)
          => /\ response'.status = (IF hasLink(store, linkId) THEN 200 ELSE 404)
             /\ store' = store
       /\ (~hasLink(store, linkId) /\ hasLink(store', linkId))
          => /\ response' = [op |-> "create", status |-> 200]
             /\ nRequests' = nRequests + 1
             /\ linkOf(store', linkId).clicks = 0
             /\ linkOf(store', linkId).clickRecords = <<>>]_vars

\* a link that had a click was deleted and its records-fetch answered 404, while
\* the other link is still there
C9_Witness ==
  /\ variant = "interstitial"
  /\ \E pg \in pages : pg.linkId = "link_1"
  /\ ~hasLink(store, "link_1")
  /\ hasLink(store, "link_2")
  /\ response = [op |-> "records", status |-> 404]

\* C10 as stated: in every link's click-record sequence the timestamps are
\* non-decreasing in sequence order.
C10_TimestampsNonDecreasing ==
  \A d \in store :
    \A i, j \in 1..Len(d.clickRecords) :
      i < j => d.clickRecords[i].timestamp.v <= d.clickRecords[j].timestamp.v

GeoFields == {"country", "city", "region", "latitude", "longitude"}

geoOf(record) == [f \in GeoFields |-> record[f]]

allUnknown ==
  [country |-> Str("Unknown"), city |-> Str("Unknown"), region |-> Str("Unknown"),
   latitude |-> Null, longitude |-> Null]

\* the external lookup was issued and answered with status success
lookupSucceeded(lookup) ==
  /\ lookup.kind = "json"
  /\ lookup.data.status = Str("success")

\* C11: whatever the external lookup does (success, another status, network
\* error, malformed body), the geolocation step of a track request answers
\* nothing, writes nothing and hands on a click record whose five geolocation
\* fields are all populated (text for country, city, region; a number or null
\* for latitude, longitude), and on every outcome other than success they are
\* "Unknown", "Unknown", "Unknown", null, null; the handler's write on an
\* existing link then appends that record and answers success, and no track
\* request is answered 500.
C11_GeolocationNeverFails ==
  [][/\ \A h \in {x \in inflight : x.pc = "geo"}, lookup \in AllLookups :
          TrackGeo(h, lookup, now')
          => /\ response' = response
             /\ store' = store
             /\ \E h2 \in inflight' \ inflight :
                  /\ inflight' = (inflight \ {h}) \cup {h2}
                  /\ h2.rid = h.rid
                  /\ h2.pc \in {"find", "update"}
                  /\ \A f \in {"country", "city", "region"} :
                       h2.clickRecord[f].t = "string"
                  /\ \A f \in {"latitude", "longitude"} :
                       h2.clickRecord[f].t \in {"number", "null"}
                  /\ ~lookupSucceeded(lookup) => geoOf(h2.clickRecord) = allUnknown
     /\ \A h \in inflight :
          (/\ Finishes(h)
           /\ h.op = "track"
           /\ h.pc = "update"
           /\ hasLink(store, h.linkId))
          => /\ response' \in {[op |-> "track", status |-> 200],
                               [op |-> "track", status |-> 302]}
             /\ hasLink(store', h.linkId)
             /\ LET after == linkOf(store', h.linkId)
                IN after.clickRecords[Len(after.clickRecords)] = h.clickRecord
     /\ response'.op = "track" => response'.status # 500]_vars

\* a click from a public address whose lookup failed was recorded with the
\* all-Unknown result
C11_Witness ==
  /\ scope = "requests"
  /\ response.op = "track"
  /\ response.status \in {200, 302}
  /\ \E d \in store :
       /\ Len(d.clickRecords) = 1
       /\ ~skipsLookup(d.clickRecords[1].ipAddress)
       /\ geoOf(d.clickRecords[1]) = allUnknown

\* ip without a leading "::ffff:"
StripPrefix(ip) ==
  IF Len(ip) >= Len(ipv6Prefix) /\ SubSeq(ip, 1, Len(ipv6Prefix)) = ipv6Prefix
  THEN SubSeq(ip, Len(ipv6Prefix) + 1, Len(ip))
  ELSE ip

\* C12 as stated: the geolocation step issues no external lookup, and yields
\* the all-Unknown/null tuple, exactly when the IP without an "::ffff:" prefix
\* is "127.0.0.1", "::1" or "Unknown"; for every other IP it consumes the
\* answer of one lookup.
C12_NoLookupExactlyForLocal ==
  [][\A h \in {x \in inflight : x.pc = "geo"}, lookup \in AllLookups :
       TrackGeo(h, lookup, now')
       => /\ (lookup = noLookup) <=>
               (StripPrefix(h.ipAddress) \in {ipLoopback4, ipLoopback6, sUnknown})
          /\ lookup = noLookup
             => \A h2 \in inflight' \ inflight : geoOf(h2.clickRecord) = allUnknown]_vars

\* text contains word w (given in lower case), whatever the case of its letters
Contains(text, w) ==
  \E i \in 1..(Len(text) - Len(w) + 1) :
    \A k \in 1..Len(w) : LowerChar(text[i + k - 1]) = w[k]

\* the browser rules in the order of the specification: label and condition
browserRules(ua) ==
  <<[label |-> "Chrome", matches |-> Contains(ua, wChrome) /\ ~Contains(ua, wEdg)],
    [label |-> "Safari", matches |-> Contains(ua, wSafari) /\ ~Contains(ua, wChrome)],
    [label |-> "Firefox", matches |-> Contains(ua, wFirefox)],
    [label |-> "Edge", matches |-> Contains(ua, wEdg)],
    [label |-> "Opera", matches |-> Contains(ua, wOpera) \/ Contains(ua, wOpr)],
    [label |-> "Unknown", matches |-> TRUE]>>

\* the label of the first rule that matches
firstMatch(rules) ==
  rules[CHOOSE i \in 1..Len(rules) :
          rules[i].matches /\ \A j \in 1..(i - 1) : ~rules[j].matches].label

\* the handlers that have classified their user-agent
classified == {h \in inflight : h.op = "track" /\ h.pc = "geo"}

\* C13 as stated: a user-agent containing "chrome" and "edg" is classified
\* Edge, one containing "chrome" and "safari" but not "edg" is classified
\* Chrome, and the browser is the first match in the order Chrome (without
\* "edg"), Safari (without "chrome"), Firefox, Edge, Opera, else Unknown.
C13_BrowserPrecedence ==
  \A h \in classified :
    /\ (Contains(h.userAgent, wChrome) /\ Contains(h.userAgent, wEdg))
       => h.parsed.browser = "Edge"
    /\ (/\ Contains(h.userAgent, wChrome)
        /\ Contains(h.userAgent, wSafari)
        /\ ~Contains(h.userAgent, wEdg))
       => h.parsed.browser = "Chrome"
    /\ h.parsed.browser = firstMatch(browserRules(h.userAgent))

\* C13 amended: a user-agent containing "chrome" and "edg" and not "firefox"
\* is classified Edge; the rest as stated.
C13_BrowserPrecedenceWithoutFirefox ==
  \A h \in classified :
    /\ (/\ Contains(h.userAgent, wChrome)
        /\ Contains(h.userAgent, wEdg)
        /\ ~Contains(h.userAgent, wFirefox))
       => h.parsed.browser = "Edge"
    /\ (/\ Contains(h.userAgent, wChrome)
        /\ Contains(h.userAgent, wSafari)
        /\ ~Contains(h.userAgent, wEdg))
       => h.parsed.browser = "Chrome"
    /\ h.parsed.browser = firstMatch(browserRules(h.userAgent))

\* the user-agent of an Edge browser (Chrome, Safari and Edg tokens) was
\* classified Edge
C13_Witness ==
  \E h \in classified :
    /\ h.userAgent = uaWith({"Chrome", "Safari", "Edg"})
    /\ h.parsed.browser = "Edge"

\* C14 as stated: the device is Tablet for every user-agent that contains
\* "tablet" or "ipad", Mobile for every user-agent that contains "mobile", and
\* Desktop otherwise, whatever the browser and OS tokens are.
C14_DeviceClasses ==
  \A h \in classified :
    LET tablet == Contains(h.userAgent, wTablet) \/ Contains(h.userAgent, wIpad)
        mobile == Contains(h.userAgent, wMobile)
    IN /\ tablet => h.parsed.device = "Tablet"
       /\ mobile => h.parsed.device = "Mobile"
       /\ (~tablet /\ ~mobile) => h.parsed.device = "Desktop"

\* C15: a successful POST /api/links adds exactly one document: the new link,
\* with click count 0, no click records and no lastClicked, and leaves the
\* existing links unchanged; the list GET /api/links answers holds every link of
\* the store (the new one included) exactly once, in non-increasing order of
\* creation time.
C15_CreateThenList ==
  [][/\ \A linkId \in LinkIdsIn(scope), name \in Names, destinationUrl \in Urls :
          (CreateLink(linkId, name, destinationUrl, now') /\ response'.status = 200)
          => \E d \in store' \ store :
               /\ store' = store \cup {d}
               /\ d.linkId = linkId
               /\ d.name = name
               /\ d.destinationUrl = destinationUrl
               /\ d.createdAt = Date(now')
               /\ d.clicks = 0
               /\ d.clickRecords = <<>>
               /\ d.lastClicked = Undefined
     /\ (response'.op = "links" /\ response' # response)
        => /\ store' = store
           /\ response'.status = 200
           /\ Len(response'.links) = Cardinality(store)
           /\ \A d \in store :
                \E i \in DOMAIN response'.links :
                  /\ response'.links[i]._id = d._id
                  /\ response'.links[i].linkId = d.linkId
                  /\ response'.links[i].createdAt = d.createdAt
           /\ \A i, j \in DOMAIN response'.links :
                i < j => response'.links[i].createdAt.v >= response'.links[j].createdAt.v]_vars

\* the list was fetched after a second link was created later than the first:
\* the new link comes first
C15_Witness ==
  /\ response.op = "links"
  /\ Len(response.links) = 2
  /\ response.links[1].createdAt.v > response.links[2].createdAt.v
  /\ response.links[1]._id > response.links[2]._id
  /\ \E d \in store :
       /\ d._id = response.links[1]._id
       /\ d.clicks = 0
       /\ d.lastClicked = Undefined
       /\ d.clickRecords = <<>>

\* C16 as stated: POST /api/links without a name or without a destinationUrl is
\* answered 400 and creates no link.
C16_MissingFieldIs400 ==
  [][\A linkId \in LinkIdsIn(scope), name \in Names, destinationUrl \in Urls :
       (/\ CreateLink(linkId, name, destinationUrl, now')
        /\ (name = Undefined \/ destinationUrl = Undefined))
       => /\ response' = [op |-> "create", status |-> 400]
          /\ store' = store]_vars

\* C17: on every path of the page's script - every camera and location
\* outcome, the POST answered with success, with an error, with a body that is
\* not JSON or rejected, an unexpected exception in any stretch - the page
\* posts at most one track-update, the redirect is never scheduled while the
\* POST is pending (and on the normal path only after one POST has settled),
\* and the browser eventually navigates to destinationUrl.
C17_PageAlwaysNavigates ==
  /\ [](\A page \in pages :
          /\ page.posts <= 1
          /\ page.pc \in {"timer", "navigated"} => page.post # "pending"
          /\ page.delay = 1000
             => (page.posts = 1
                   /\ page.post \in {"success", "error", "malformed", "failed"})
          /\ page.pc = "navigated" => page.location = page.destinationUrl
          /\ page.pc # "navigated" => page.location # page.destinationUrl)
  /\ <>(\A page \in pages :
          page.pc = "navigated" /\ page.location = page.destinationUrl)

\* the camera request timed out, the location was denied, the server answered
\* the POST with an error, and the browser navigated
C17_Witness ==
  \E page \in pages :
    /\ page.pc = "navigated"
    /\ page.cameraPermission = "timeout"
    /\ page.locationPermission = "denied"
    /\ page.post = "error"
    /\ page.posts = 1
    /\ page.location = page.destinationUrl

\* the deferred-enrichment fields that carry a creation-time default
SentinelFields ==
  {"cameraPermission", "locationPermission", "screenResolution", "language",
   "timezone", "connectionType"}

sentinelOf(f) ==
  IF f \in {"cameraPermission", "locationPermission"}
  THEN Str("not_requested") ELSE Str("Unknown")

\* the step appends a click record to the link that handler h names
Appends(h) ==
  /\ Finishes(h)
  /\ h.pc = "update"
  /\ hasLink(store, h.linkId)
  /\ hasLink(store', h.linkId)
  /\ Len(linkOf(store', h.linkId).clickRecords) =
       Len(linkOf(store, h.linkId).clickRecords) + 1

appended(h) ==
  LET records == linkOf(store', h.linkId).clickRecords IN records[Len(records)]

\* a step changes one of the sentinel fields of a stored record only if it is
\* the successful save of a track-update on that document
SentinelsChangeOnlyBySave ==
  \A d \in store :
    hasId(store', d._id) =>
      \A i \in 1..Len(d.clickRecords) :
        (\E f \in SentinelFields :
           docById(store', d._id).clickRecords[i][f] # d.clickRecords[i][f])
        => \E h \in inflight : SaveSucceeds(h) /\ h.oid = d._id

\* C18 as stated: every click record, in the state right after the track request
\* appended it, has cameraPermission and locationPermission "not_requested" and
\* screenResolution, language, timezone and connectionType "Unknown", and these
\* fields change only through a later track-update.
C18_NewRecordHasSentinels ==
  [][/\ \A h \in inflight :
          Appends(h) => \A f \in SentinelFields : appended(h)[f] = sentinelOf(f)
     /\ SentinelsChangeOnlyBySave]_vars

\* C18 amended: in the interstitial variant the appended record has the six
\* defaults; in the direct variant it has none of the six fields; in both, the
\* fields change only through a later successful track-update.
C18_NewRecordHasSentinelsInterstitial ==
  [][/\ \A h \in inflight :
          Appends(h) =>
            \A f \in SentinelFields :
              appended(h)[f] = IF variant = "interstitial" THEN sentinelOf(f)
                               ELSE Undefined
     /\ SentinelsChangeOnlyBySave]_vars

\* a track request has just appended the second record of a link in the
\* interstitial variant, after a track-update enriched the first
C18_Witness ==
  /\ variant = "interstitial"
  /\ response = [op |-> "track", status |-> 200]
  /\ \E d \in store :
       /\ Len(d.clickRecords) = 2
       /\ d.clickRecords[1].cameraPermission = Str("granted")
       /\ \A f \in SentinelFields : d.clickRecords[2][f] = sentinelOf(f)

\* C19: in the interstitial variant, a track handler that answers with the
\* success page has, in that step, appended exactly its one click record to the
\* link and added 1 to the link's click count - whatever other requests did
\* between its findOne and its findOneAndUpdate.
C19_SuccessPageMeansAppended ==
  [][\A h \in inflight :
       (/\ Finishes(h)
        /\ h.pc = "update"
        /\ variant = "interstitial"
        /\ response' = [op |-> "track", status |-> 200])
       => /\ Appends(h)
          /\ appended(h) = h.clickRecord
          /\ linkOf(store', h.linkId).clicks = linkOf(store, h.linkId).clicks + 1]_vars

\* the step answers the track request of handler h with success
TrackSucceeds(h) ==
  /\ Finishes(h)
  /\ h.op = "track"
  /\ h.pc = "update"
  /\ response'.status \in {200, 302}

\* the ids of the click records of a link
recordIds(d) == {d.clickRecords[i]._id : i \in 1..Len(d.clickRecords)}

\* C20: while no link is deleted, (a) a step adds 1 to a link's click count
\* exactly when it answers a track request for that link with success, and
\* leaves the count alone otherwise; every successful answer is for a stored
\* link, and a new link starts at 0: so the count equals the number of track
\* requests answered successfully; (b) the save of a track-update keeps every
\* record of the history, also one appended after the handler read the link;
\* (c) the count is the length of the history, and the click of every success
\* page that has not posted yet is in the history of its link.
C20_NoClickLost ==
  /\ [][/\ \A d \in store :
             /\ hasId(store', d._id)
             /\ docById(store', d._id).clicks =
                  d.clicks + (IF \E h \in inflight :
                                    TrackSucceeds(h) /\ h.linkId = d.linkId
                              THEN 1 ELSE 0)
             /\ (\E h \in inflight : SaveSucceeds(h))
                => /\ Len(docById(store', d._id).clickRecords) = Len(d.clickRecords)
                   /\ recordIds(docById(store', d._id)) = recordIds(d)
        /\ \A h \in inflight : TrackSucceeds(h) => hasLink(store, h.linkId)
        /\ \A d \in store' : ~hasId(store, d._id) => d.clicks = 0]_vars
  /\ [](/\ \A d \in store : d.clicks = Len(d.clickRecords)
        /\ \A p \in pages :
             /\ hasLink(store, p.linkId)
             /\ p.click \in recordIds(linkOf(store, p.linkId)))

\* a track-update read the link when it had one record, a second track request
\* appended its record and was answered, and then the update saved: both
\* clicks are in the history and counted
C20_Witness ==
  /\ scope = "requests"
  /\ variant = "interstitial"
  /\ nRequests = MaxRequests
  /\ inflight = {}
  /\ response = [op |-> "trackUpdate", status |-> 200]
  /\ Cardinality(pages) = 1
  /\ \E d \in store :
       /\ d.clicks = 2
       /\ Len(d.clickRecords) = 2
       /\ {p.click : p \in pages} = {d.clickRecords[2]._id}
       /\ d.clickRecords[1].cameraPermission = Str("granted")
       /\ d.clickRecords[2].cameraPermission = Str("not_requested")

\* the fields of a click record set when the track handler builds it
CreationFields ==
  {"_id", "timestamp", "ipAddress", "country", "city", "region", "latitude",
   "longitude", "userAgent", "browser", "os", "device", "referrer", "portNumber"}

creationOf(record) == [f \in CreationFields |-> record[f]]

\* C21: the click history of a link is append-only.  In every step, a stored
\* link either stays in the store with its old records in place, in order and
\* with their creation-time fields unchanged, and with at most one record more -
\* which is then the record of the track handler that wrote in this step, at the
\* end - or it leaves the store, and then the step is a DELETE of that link.
\* The save of a track-update never changes the number of records.
C21_HistoryAppendOnly ==
  [][\A d \in store :
       IF hasId(store', d._id)
       THEN LET before == d.clickRecords
                after == docById(store', d._id).clickRecords
            IN /\ Len(after) \in {Len(before), Len(before) + 1}
               /\ \A i \in 1..Len(before) : creationOf(after[i]) = creationOf(before[i])
               /\ Len(after) = Len(before) + 1
                  => \E h \in inflight :
                       /\ Appends(h)
                       /\ h.linkId = d.linkId
                       /\ after[Len(after)] = h.clickRecord
               /\ (\E h \in inflight : Finishes(h) /\ h.pc = "save")
                  => Len(after) = Len(before)
       ELSE DeleteLink(d.linkId)]_vars

\* a link holds two records, the first enriched by a track-update that was
\* saved after the second was appended, both with their own creation fields
C21_Witness ==
  /\ scope = "requests"
  /\ response = [op |-> "trackUpdate", status |-> 200]
  /\ \E d \in store :
       /\ Len(d.clickRecords) = 2
       /\ d.clickRecords[1]._id < d.clickRecords[2]._id
       /\ d.clickRecords[1].locationPermission = Str("granted")
       /\ d.clickRecords[1].country = Str("Unknown")
       /\ d.clickRecords[2].country # Str("Unknown")

\* C22: no two stored links share linkId (or _id); no step changes linkId,
\* name, destinationUrl or createdAt of a link that stays in the store; and a
\* step of a track or track-update handler changes no link other than the one
\* the handler's request names.
C22_IdentityUniqueAndFixed ==
  /\ [](\A d1, d2 \in store :
          (d1.linkId = d2.linkId \/ d1._id = d2._id) => d1 = d2)
  /\ [][/\ \A d \in store :
             hasId(store', d._id) => identityOf(docById(store', d._id)) = identityOf(d)
        /\ inflight' # inflight
           => \A d \in (store \ store') \cup (store' \ store) :
                \E h \in inflight \ inflight' : h.linkId = d.linkId]_vars

\* two links are stored; link_1 was clicked once, link_2 is as it was created,
\* and a further create was refused
C22_Witness ==
  /\ variant = "interstitial"
  /\ hasLink(store, "link_1")
  /\ hasLink(store, "link_2")
  /\ response = [op |-> "create", status |-> 500]
  /\ linkOf(store, "link_1").clicks = 1
  /\ linkOf(store, "link_2").clicks = 0
  /\ linkOf(store, "link_2").clickRecords = <<>>

\* the step is the track-update POST of a served page, answered at once
PagePostAnswered(linkId, origin) ==
  /\ origin # 0
  /\ \E payload \in PayloadsIn(scope) : TrackUpdateFind(linkId, payload, origin)
  /\ inflight' = inflight

\* C23: in the interstitial variant, while generated identifiers are not
\* reused: as long as the link of a served page is stored, the page's click
\* record is in the link's history (the page is sent after the append), so the
\* page's track-update POST is never answered 404 for a stored link with zero
\* records; it is answered 404 only when the link is no longer in the store.
C23_PagePostFindsItsRecord ==
  /\ [](variant = "interstitial" =>
          \A p \in pages :
            hasLink(store, p.linkId)
            => /\ linkOf(store, p.linkId).clickRecords # <<>>
               /\ p.click \in recordIds(linkOf(store, p.linkId)))
  /\ [][\A linkId \in LinkIdsIn(scope), origin \in 1..MaxRequests :
          (PagePostAnswered(linkId, origin) /\ response'.op = "trackUpdate")
          => /\ response'.status = 404
             /\ ~hasLink(store, linkId)]_vars

\* the POST of a served page has read the link and selected the record of the
\* page's own click; it now waits for its save
C23_Witness ==
  /\ scope = "requests"
  /\ variant = "interstitial"
  /\ pages = {}
  /\ \E h \in inflight :
       /\ h.pc = "save"
       /\ h.origin # 0
       /\ h.lastRecord # Undefined
       /\ h.lastRecord._id = h.origin

\* C24: in every reachable state of the basic, the direct and the interstitial
\* variant, a stored link has no lastClicked exactly when its click count is 0;
\* a created link has neither, and a step that raises the count of a link sets
\* the link's lastClicked to a date in the same step.
C24_LastClickedIffClicked ==
  /\ [](\A d \in store : (d.lastClicked = Undefined) <=> (d.clicks = 0))
  /\ [][/\ \A d \in store' :
             ~hasId(store, d._id) => (d.clicks = 0 /\ d.lastClicked = Undefined)
        /\ \A d \in store :
             (hasId(store', d._id) /\ docById(store', d._id).clicks # d.clicks)
             => /\ docById(store', d._id).clicks = d.clicks + 1
                /\ docById(store', d._id).lastClicked \in {Date(t) : t \in Times}]_vars

\* in the basic variant one link was clicked twice and has lastClicked, the
\* other was never clicked and has none
C24_Witness ==
  /\ variant = "basic"
  /\ hasLink(store, "link_1")
  /\ hasLink(store, "link_2")
  /\ linkOf(store, "link_1").clicks = 2
  /\ linkOf(store, "link_1").lastClicked = Date(MaxTime)
  /\ linkOf(store, "link_2").clicks = 0
  /\ linkOf(store, "link_2").lastClicked = Undefined

\* the track request with id r is being handled
Handling(r) == \E h \in inflight : h.op = "track" /\ h.rid = r
\* ... and waits for the geolocation lookup
AwaitsGeo(r) == \E h \in inflight : h.op = "track" /\ h.rid = r /\ h.pc = "geo"

\* the step sends the response of track request r
Responds(r) ==
  /\ Handling(r)
  /\ ~(\E h \in inflight' : h.op = "track" /\ h.rid = r)

providerField(f) ==
  CASE f = "country" -> "country"
    [] f = "city" -> "city"
    [] f = "region" -> "regionName"
    [] f = "latitude" -> "lat"
    [] f = "longitude" -> "lon"

\* the field is in the provider's response
supplied(data, f) == data[providerField(f)] \notin {Undefined, Null}

\* C26: when the lookup is issued and reports success, the click record built
\* by the geolocation step has each of country, city, region, latitude and
\* longitude exactly as the provider supplied it when the field is in the
\* response - a latitude or longitude of 0 included - and "Unknown" (text) or
\* null (coordinates) when it is missing.
C26_SuppliedFieldsKept ==
  [][\A h \in {x \in inflight : x.pc = "geo"}, lookup \in AllLookups :
       (/\ TrackGeo(h, lookup, now')
        /\ lookupSucceeded(lookup)
        /\ ~skipsLookup(h.ipAddress))
       => \E h2 \in inflight' \ inflight :
            /\ h2.rid = h.rid
            /\ \A f \in GeoFields :
                 h2.clickRecord[f] =
                   IF supplied(lookup.data, f) THEN lookup.data[providerField(f)]
                   ELSE allUnknown[f]]_vars

====
